---- MODULE Spec2Model ----
(***************************************************************************)
(* Progress tracker backend (backend/app): the HTTP handlers of            *)
(* api/progress.py and api/analytics.py over the DatabaseManager of        *)
(* models/database.py, with its two storage backends (PostgreSQL pool or   *)
(* per-identifier JSON files).                                             *)
(*                                                                         *)
(* One action per request handler; a handler runs to completion in one     *)
(* step.  I/O faults of the storage layer are inputs of each step.  The    *)
(* variables req, resp, calls and local record the last request, its       *)
(* response, the gateway calls it made and the handler's local snapshot.   *)
(*                                                                         *)
(* Spec: the handlers and the background task, one request at a time.      *)
(* SpecAnalytics: the functions of models/analytics.py over the snapshots  *)
(* a client can store.  SpecRace: two completion requests in flight, with  *)
(* the suspension points of the event loop.                                *)
(***************************************************************************)
EXTENDS Integers, Sequences, FiniteSets, TLC

VARIABLES
    pool,           \* db_manager.pool is set (PostgreSQL) or None (files)
    files,          \* data/progress_{user_id}.json: <<>> or <<json document>>
    user_progress,  \* rows of table user_progress
    log_files,      \* data/logs/{user_id}_{date}.json: <<>> or <<entry>>
    daily_logs,     \* rows of table daily_logs
    spaced_repetition, \* rows of table spaced_repetition
    req,            \* the request handled by the last step
    resp,           \* its HTTP response
    calls,          \* the gateway calls it made, in order, with their outcome
    local           \* the handler's local `progress`: as loaded, as saved

vars == <<pool, files, user_progress, log_files, daily_logs,
          spaced_repetition, req, resp, calls, local>>

----------------------------------------------------------------------------
(* Bounds of the model *)

MaxPoints == 3

Users == {"default_user"}
TaskIds == {"t1", "t2"}
Categories == {"capstone", "project", "ai", "production", "other"}
Dates == {"d1"}
Now == 100                      \* the current instant, in days

Range(s) == {s[i] : i \in 1 .. Len(s)}

Min(a, b) == IF a <= b THEN a ELSE b

----------------------------------------------------------------------------
(* models/progress.py: record types *)

GCA == "Google Cloud AI"

DefaultCertificationProgress ==
    [c \in {GCA, "AWS ML Specialty", "Azure AI Engineer"} |-> 0]

\* ProgressData(): every field at its default
ProgressData ==
    [currentWeek |-> 1, currentDay |-> 1, totalXP |-> 0, dailyXP |-> 0,
     streak |-> 0, completedTasks |-> <<>>, struggledTasks |-> <<>>,
     notes |-> <<>>, portfolioItems |-> <<>>,
     certificationProgress |-> DefaultCertificationProgress,
     difficultyLevel |-> "medium", lastUpdated |-> "None"]

FieldNames ==
    <<"currentWeek", "currentDay", "totalXP", "dailyXP", "streak",
      "completedTasks", "struggledTasks", "notes", "portfolioItems",
      "certificationProgress", "difficultyLevel", "lastUpdated">>

\* TaskCompletion bodies (time and difficulty are never read by the handler):
\* every category at MaxPoints, the ai event carrying notes, and a capstone
\* event with negative points (points is an unconstrained int)
TaskCompletions ==
    [taskId : TaskIds, points : {MaxPoints}, category : Categories \ {"ai"},
     notes : {""}]
    \cup [taskId : TaskIds, points : {MaxPoints}, category : {"ai"}, notes : {"n"}]
    \cup [taskId : TaskIds, points : {-1}, category : {"capstone"}, notes : {""}]

\* DailyLog bodies
DailyLogs == [date : Dates, xpEarned : {5}, mood : {"neutral"}]

\* notes is a Dict[str, str]: a sequence of <<key, value>> pairs with
\* distinct keys, in insertion order
DictKeys(d) == {d[i][1] : i \in 1 .. Len(d)}

DictSet(d, k, v) ==
    IF k \in DictKeys(d)
    THEN [i \in 1 .. Len(d) |-> IF d[i][1] = k THEN <<k, v>> ELSE d[i]]
    ELSE Append(d, <<k, v>>)

----------------------------------------------------------------------------
\* json.dump(progress_data.dict(), f) and ProgressData(** json.load(f))

\* progress_data.dict() written as a JSON object: its members in field order
JsonDump(p) == [i \in 1 .. Len(FieldNames) |-> <<FieldNames[i], p[FieldNames[i]]>>]

JsonMember(doc, k) == CHOOSE i \in 1 .. Len(doc) : doc[i][1] = k

\* ProgressData(** data): every field from the member of that name, the
\* default for a field the document lacks
JsonLoad(doc) ==
    [f \in Range(FieldNames) |->
        IF \E i \in 1 .. Len(doc) : doc[i][1] = f
        THEN doc[JsonMember(doc, f)][2]
        ELSE ProgressData[f]]

----------------------------------------------------------------------------
(* models/database.py: DatabaseManager *)

\* create_tables: the only unique constraint of each table is its primary key
UniqueConstraints ==
    [user_progress |-> {<<"id">>}, daily_logs |-> {<<"id">>},
     spaced_repetition |-> {<<"id">>}]

\* INSERT ... ON CONFLICT (target) is rejected by PostgreSQL unless a unique
\* constraint or index covers exactly the conflict target
OnConflictRejected(table, target) == target \notin UniqueConstraints[table]

\* a gateway method without its try/except: the exception reaches the caller
GatewayExcept_Propagates(op, io, bodyRaised, value, fallback) ==
    [op |-> op, io |-> io, fault |-> bodyRaised, raised |-> bodyRaised,
     ret |-> value]

\* the try/except of every gateway method: an exception raised in the body
\* is logged and the fallback value returned instead
\* (io: the storage layer itself failed; fault: the body raised, for that or
\* for any other reason; raised: the method raised to its caller)
GatewayExcept(op, io, bodyRaised, value, fallback) ==
    [op |-> op, io |-> io, fault |-> bodyRaised, raised |-> FALSE,
     ret |-> IF bodyRaised THEN fallback ELSE value]

\* INSERT INTO user_progress ... ON CONFLICT (user_id) DO UPDATE
UpsertProgressRows(rows, user_id, doc) ==
    IF \E i \in 1 .. Len(rows) : rows[i].user_id = user_id
    THEN [i \in 1 .. Len(rows) |->
            IF rows[i].user_id = user_id
            THEN [rows[i] EXCEPT !.data = doc] ELSE rows[i]]
    ELSE Append(rows, [id |-> Len(rows) + 1, user_id |-> user_id, data |-> doc])

\* save_progress(user_id, progress_data); ioFault: the connection or the
\* file system fails during the call
SaveProgress(user_id, progress_data, ioFault) ==
    LET bodyRaised ==
            IF pool THEN ioFault \/ OnConflictRejected("user_progress", <<"user_id">>)
            ELSE ioFault
    IN  [call |-> GatewayExcept("save_progress", ioFault, bodyRaised, "True", "False"),
         files |-> IF ~pool /\ ~bodyRaised
                   THEN [files EXCEPT ![user_id] = <<JsonDump(progress_data)>>]
                   ELSE files,
         rows |-> IF pool /\ ~bodyRaised
                  THEN UpsertProgressRows(user_progress, user_id, JsonDump(progress_data))
                  ELSE user_progress]

\* SELECT data FROM user_progress WHERE user_id = $1 ... LIMIT 1
SelectProgressRow(rows, user_id) ==
    LET hits == {i \in 1 .. Len(rows) : rows[i].user_id = user_id}
    IN  IF hits = {} THEN <<>>
        ELSE <<rows[CHOOSE i \in hits : \A j \in hits : j <= i].data>>

\* load_progress(user_id): <<>> is None, <<p>> a ProgressData
LoadProgress(user_id, ioFault) ==
    LET found == IF pool THEN SelectProgressRow(user_progress, user_id)
                 ELSE files[user_id]
        value == IF found = <<>> THEN <<>> ELSE <<JsonLoad(found[1])>>
        \* the file backend opens the file only when it exists
        bodyRaised == ioFault /\ (pool \/ found # <<>>)
        call  == GatewayExcept("load_progress", bodyRaised, bodyRaised,
                               IF value = <<>> THEN "None" ELSE "ProgressData",
                               "None")
    IN  [call |-> call,
         value |-> IF bodyRaised THEN <<>> ELSE value]

\* INSERT INTO daily_logs ... ON CONFLICT (user_id, date) DO UPDATE
UpsertLogRows(rows, user_id, daily_log) ==
    IF \E i \in 1 .. Len(rows) :
            rows[i].user_id = user_id /\ rows[i].date = daily_log.date
    THEN [i \in 1 .. Len(rows) |->
            IF rows[i].user_id = user_id /\ rows[i].date = daily_log.date
            THEN [rows[i] EXCEPT !.data = daily_log] ELSE rows[i]]
    ELSE Append(rows, [id |-> Len(rows) + 1, user_id |-> user_id,
                       date |-> daily_log.date, data |-> daily_log])

\* save_daily_log(user_id, daily_log)
SaveDailyLog(user_id, daily_log, ioFault) ==
    LET bodyRaised ==
            IF pool
            THEN ioFault \/ OnConflictRejected("daily_logs", <<"user_id", "date">>)
            ELSE ioFault
    IN  [call |-> GatewayExcept("save_daily_log", ioFault, bodyRaised, "True", "False"),
         files |-> IF ~pool /\ ~bodyRaised
                   THEN [log_files EXCEPT ![<<user_id, daily_log.date>>] = <<daily_log>>]
                   ELSE log_files,
         rows |-> IF pool /\ ~bodyRaised
                  THEN UpsertLogRows(daily_logs, user_id, daily_log)
                  ELSE daily_logs]

\* the rows of `rows` sorted ascending by next_review
RECURSIVE SortByNextReview(_)
SortByNextReview(rows) ==
    IF rows = {} THEN <<>>
    ELSE LET first == CHOOSE r \in rows :
                        \A o \in rows : r.next_review < o.next_review
                                        \/ (r.next_review = o.next_review /\ r.id <= o.id)
         IN  <<first>> \o SortByNextReview(rows \ {first})

\* get_spaced_repetition_items(user_id)
GetSpacedRepetitionItems(user_id, ioFault) ==
    LET due == {r \in spaced_repetition :
                    r.user_id = user_id /\ r.next_review <= Now}
        sorted == SortByNextReview(due)
        items == IF pool
                 THEN [i \in 1 .. Len(sorted) |->
                        [taskId |-> sorted[i].task_id,
                         nextReview |-> sorted[i].next_review]]
                 ELSE <<>>
        bodyRaised == pool /\ ioFault
    IN  [call |-> GatewayExcept("get_spaced_repetition_items", bodyRaised, bodyRaised,
                                IF items = <<>> THEN "[]" ELSE "items", "[]"),
         value |-> IF bodyRaised THEN <<>> ELSE items]

----------------------------------------------------------------------------
(* api/progress.py: complete_task, lines 51-85 *)

\* multiplier, in tenths: 1.5 capstone, 1.2 project, 1.0 otherwise
MultiplierTenths(category) ==
    IF category = "capstone" THEN 15
    ELSE IF category = "project" THEN 12 ELSE 10

\* int(x / 10): Python's int() truncates toward zero
IntTrunc(x) == IF x >= 0 THEN x \div 10 ELSE -((-x) \div 10)

\* earned_xp = int(completion.points * multiplier).  The product is an IEEE
\* double; for |points| <= 100000 its truncation equals the truncation of
\* the exact product points * tenths / 10.
EarnedXp(completion) ==
    IntTrunc(completion.points * MultiplierTenths(completion.category))

\* cert_progress_map.get(completion.category, 1)
CertIncrease(category) ==
    CASE category = "ai" -> 5
      [] category = "production" -> 3
      [] category = "project" -> 2
      [] category = "capstone" -> 10
      [] OTHER -> 1

\* the membership test dropped: every completion is applied
NotCompleted_Always(progress, completion) == TRUE

\* completion.taskId not in progress.completedTasks
NotCompleted(progress, completion) ==
    completion.taskId \notin Range(progress.completedTasks)

\* the category list with "capstone" left out
PortfolioCategories_ProjectOnly == {"project"}

\* completion.category in ["project", "capstone"]
PortfolioCategories == {"project", "capstone"}

\* the portfolio item of lines 74-80
PortfolioItem(completion, earned_xp) ==
    [id |-> completion.taskId, name |-> <<"Task: ", completion.taskId>>,
     completedDate |-> "now", type |-> completion.category, xp |-> earned_xp]

\* the increase applied to every certification entry
UpdateCertification_Every(cert, category) ==
    [c \in DOMAIN cert |-> Min(100, cert[c] + CertIncrease(category))]

\* progress.certificationProgress["Google Cloud AI"] = min(100, ... + cert_increase)
UpdateCertification(cert, category) ==
    [cert EXCEPT ![GCA] = Min(100, cert[GCA] + CertIncrease(category))]

\* The body of `if completion.taskId not in progress.completedTasks:`.
\* raised: the subscript certificationProgress["Google Cloud AI"] raises
\* KeyError when the loaded snapshot has no such key.
ApplyCompletion(progress, completion) ==
    IF ~NotCompleted(progress, completion)
    THEN [raised |-> FALSE, progress |-> progress, earned_xp |-> <<>>]
    ELSE
      LET earned_xp == EarnedXp(completion)
          p1 == [progress EXCEPT
                    !.completedTasks = Append(@, completion.taskId),
                    !.totalXP = @ + earned_xp,
                    !.dailyXP = @ + earned_xp]
      IN  IF GCA \notin DOMAIN p1.certificationProgress
          THEN [raised |-> TRUE, progress |-> p1, earned_xp |-> <<earned_xp>>]
          ELSE
            LET p2 == [p1 EXCEPT !.certificationProgress =
                            UpdateCertification(@, completion.category)]
                p3 == IF completion.category \in PortfolioCategories
                      THEN [p2 EXCEPT !.portfolioItems =
                                Append(@, PortfolioItem(completion, earned_xp))]
                      ELSE p2
                p4 == IF completion.notes # ""
                      THEN [p3 EXCEPT !.notes =
                                DictSet(@, completion.taskId, completion.notes)]
                      ELSE p3
            IN  [raised |-> FALSE, progress |-> p4, earned_xp |-> <<earned_xp>>]

\* "xp_earned": earned_xp if completion.taskId not in progress.completedTasks
\* else 0, evaluated on the snapshot after the mutation
ResponseXpEarned(progress, completion, earned_xp) ==
    IF NotCompleted(progress, completion) THEN earned_xp[1] ELSE 0

\* `except Exception as e`: every exception raised in the try block, an
\* HTTPException included, is answered by a 500 with the handler's detail
ExceptException(exc, detail) ==
    [status |-> 500, detail |-> detail, body |-> <<>>]

HTTPException(status_code, detail) ==
    [type |-> "HTTPException", status_code |-> status_code, detail |-> detail]

OtherException == [type |-> "Exception", status_code |-> 0, detail |-> ""]

Ok(detail, body) == [status |-> 200, detail |-> detail, body |-> body]

----------------------------------------------------------------------------
(* The stored state and the initial state *)

stores == <<pool, files, user_progress, log_files, daily_logs, spaced_repetition>>

\* the snapshot a fault-free load_progress(user_id) returns now
Stored(user_id) == LoadProgress(user_id, FALSE).value

\* rows of spaced_repetition written by other clients of the database
ReviewRows ==
    {[id |-> 1, user_id |-> "default_user", task_id |-> "t1", next_review |-> Now - 31],
     [id |-> 2, user_id |-> "default_user", task_id |-> "t2", next_review |-> Now - 29],
     [id |-> 3, user_id |-> "default_user", task_id |-> "t1", next_review |-> Now + 1],
     [id |-> 4, user_id |-> "default_user", task_id |-> "t2", next_review |-> Now - 30]}

NoRequest == [op |-> "none", user_id |-> "", body |-> <<>>]
NoResponse == [status |-> 0, detail |-> "", body |-> <<>>]
NoLocal == [loaded |-> <<>>, saved |-> <<>>]

\* DatabaseManager.initialize: the pool exists iff DATABASE_URL names a
\* PostgreSQL server and the connection succeeds; tables are created empty
Init ==
    /\ pool \in BOOLEAN
    /\ files = [u \in Users |-> <<>>]
    /\ user_progress = <<>>
    /\ log_files = [k \in Users \X Dates |-> <<>>]
    /\ daily_logs = <<>>
    /\ spaced_repetition = IF pool THEN ReviewRows ELSE {}
    /\ req = NoRequest
    /\ resp = NoResponse
    /\ calls = <<>>
    /\ local = NoLocal

----------------------------------------------------------------------------
(* api/progress.py: the handlers *)

\* GET /progress
get_progress(user_id, loadFault) ==
    \E ld \in {LoadProgress(user_id, loadFault)} :
    LET progress == IF ld.value = <<>> THEN ProgressData ELSE ld.value[1]
    IN  /\ req' = [op |-> "get_progress", user_id |-> user_id, body |-> <<>>]
        /\ calls' = <<ld.call>>
        /\ local' = [loaded |-> ld.value, saved |-> <<>>]
        /\ resp' = IF ld.call.raised
                   THEN ExceptException(OtherException, "Failed to retrieve progress")
                   ELSE Ok("", <<progress>>)
        /\ UNCHANGED stores

\* POST /progress
save_progress(user_id, body, saveFault) ==
    \E progress \in {[body EXCEPT !.lastUpdated = "now"]} :
    \E sv \in {SaveProgress(user_id, progress, saveFault)} :
        /\ req' = [op |-> "save_progress", user_id |-> user_id, body |-> <<body>>]
        /\ calls' = <<sv.call>>
        /\ local' = [loaded |-> <<>>, saved |-> <<progress>>]
        /\ files' = sv.files
        /\ user_progress' = sv.rows
        /\ resp' = IF sv.call.raised
                   THEN ExceptException(OtherException, "Failed to save progress")
                   ELSE IF sv.call.ret = "True"
                   THEN Ok("Progress saved successfully", <<>>)
                   ELSE ExceptException(HTTPException(500, "Failed to save progress"),
                                        "Failed to save progress")
        /\ UNCHANGED <<pool, log_files, daily_logs, spaced_repetition>>

\* POST /task/complete
complete_task(user_id, completion, loadFault, saveFault) ==
    \E ld \in {LoadProgress(user_id, loadFault)} :
    \E progress \in {IF ld.value = <<>> THEN ProgressData ELSE ld.value[1]} :
    \E ap \in {ApplyCompletion(progress, completion)} :
    \E sv \in {SaveProgress(user_id, ap.progress, saveFault)} :
    LET saves == ~ld.call.raised /\ ~ap.raised
    IN  /\ req' = [op |-> "complete_task", user_id |-> user_id, body |-> <<completion>>]
        /\ calls' = IF saves THEN <<ld.call, sv.call>> ELSE <<ld.call>>
        /\ local' = [loaded |-> IF ld.call.raised THEN <<>> ELSE <<progress>>,
                     saved |-> IF saves THEN <<ap.progress>> ELSE <<>>]
        /\ files' = IF saves THEN sv.files ELSE files
        /\ user_progress' = IF saves THEN sv.rows ELSE user_progress
        /\ resp' = IF ~saves \/ sv.call.raised
                   THEN ExceptException(OtherException, "Failed to complete task")
                   ELSE Ok("Task completed successfully",
                           [success |-> TRUE,
                            xp_earned |-> ResponseXpEarned(ap.progress, completion,
                                                           ap.earned_xp),
                            total_xp |-> ap.progress.totalXP])
        /\ UNCHANGED <<pool, log_files, daily_logs, spaced_repetition>>

\* POST /daily-log
save_daily_log(user_id, daily_log, saveFault) ==
    \E sv \in {SaveDailyLog(user_id, daily_log, saveFault)} :
        /\ req' = [op |-> "save_daily_log", user_id |-> user_id, body |-> <<daily_log>>]
        /\ calls' = <<sv.call>>
        /\ local' = NoLocal
        /\ log_files' = sv.files
        /\ daily_logs' = sv.rows
        /\ resp' = IF sv.call.raised
                   THEN ExceptException(OtherException, "Failed to save daily log")
                   ELSE IF sv.call.ret = "True"
                   THEN Ok("Daily log saved", <<>>)
                   ELSE ExceptException(HTTPException(500, "Failed to save daily log"),
                                        "Failed to save daily log")
        /\ UNCHANGED <<pool, files, user_progress, spaced_repetition>>

----------------------------------------------------------------------------
(* models/analytics.py: ProgressAnalytics *)

Max(a, b) == IF a >= b THEN a ELSE b

\* max(values) of a non-empty collection of ints
MaxOf(S) == CHOOSE x \in S : \A y \in S : y <= x

\* a Python float that is a ratio of two ints, kept as <<numerator, denominator>>
\* with a positive denominator

\* calculate_learning_velocity: days_active = max(1, len(completedTasks) / 3),
\* that is max(3, len) / 3, so x / days_active = 3 * x / max(3, len)
calculate_learning_velocity(progress) ==
    LET thirds == Max(3, Len(progress.completedTasks))
    IN  [xp_per_day |-> <<3 * progress.totalXP, thirds>>,
         tasks_per_day |-> <<3 * Len(progress.completedTasks), thirds>>,
         efficiency_score |-> <<progress.totalXP,
                                Max(1, Len(progress.struggledTasks) + 1)>>,
         consistency_score |-> <<3 * progress.streak, thirds>>]

\* estimated_days = max(1, (100 - progress_pct) / 2), as <<numerator, 2>>:
\* `/` is true division, the quotient a float that is not rounded; max
\* returns its first argument, the int 1, unless the quotient is greater
estimated_days(progress_pct) ==
    IF 100 - progress_pct > 2 THEN <<100 - progress_pct, 2>> ELSE <<2, 2>>

\* predict_certification_readiness: one entry per certification
predict_certification_readiness(progress) ==
    [cert \in DOMAIN progress.certificationProgress |->
        LET progress_pct == progress.certificationProgress[cert]
        IN  [current_progress |-> progress_pct,
             estimated_days_to_ready |-> estimated_days(progress_pct),
             confidence_level |->
                 IF progress_pct > 70 THEN "high"
                 ELSE IF progress_pct > 40 THEN "medium" ELSE "low",
             recommended_focus |->
                 IF progress_pct > 60 THEN "practice_exams"
                 ELSE "foundation_building"]]

MsgReview == "Consider reviewing fundamentals - high struggle rate detected"
MsgGreat == "You're doing great! Consider taking on more challenging projects"
MsgStudyTime == "Increase daily study time to meet weekly XP targets"
MsgExam == "You're close to certification! Schedule your exam soon"
MsgPortfolio == "Focus on completing more portfolio projects"

\* lines 53-63: struggle_rate = len(struggledTasks) / max(1, len(completedTasks))
\* compared with 0.3 and 0.1.  The quotient of two small ints is the double
\* nearest to the ratio, as 0.3 and 0.1 are the doubles nearest to 3/10 and
\* 1/10, so the comparisons are those of the exact ratios.
StruggleRule(progress) ==
    LET s == Len(progress.struggledTasks)
        c == Max(1, Len(progress.completedTasks))
    IN  IF 10 * s > 3 * c THEN <<MsgReview>>
        ELSE IF 10 * s < c THEN <<MsgGreat>> ELSE <<>>

\* lines 66-69
VelocityRule(progress) ==
    IF progress.totalXP < progress.currentWeek * 1000 THEN <<MsgStudyTime>> ELSE <<>>

\* lines 72-76, for a non-empty certificationProgress
CertificationRule(progress) ==
    LET values == {progress.certificationProgress[c] :
                        c \in DOMAIN progress.certificationProgress}
    IN  IF MaxOf(values) > 80 THEN <<MsgExam>> ELSE <<>>

\* lines 79-80
PortfolioRule(progress) ==
    IF Len(progress.portfolioItems) < progress.currentWeek
    THEN <<MsgPortfolio>> ELSE <<>>

\* recommendations[:3]
FirstThree(recommendations) ==
    SubSeq(recommendations, 1, Min(3, Len(recommendations)))

\* generate_personalized_recommendations.  raised: max() of an empty
\* certificationProgress.values() raises ValueError at line 72.
generate_personalized_recommendations(progress) ==
    IF DOMAIN progress.certificationProgress = {}
    THEN [raised |-> TRUE, value |-> <<>>]
    ELSE [raised |-> FALSE,
          value |-> FirstThree(StruggleRule(progress) \o VelocityRule(progress)
                               \o CertificationRule(progress)
                               \o PortfolioRule(progress))]

----------------------------------------------------------------------------
(* api/analytics.py: the handlers *)

\* the "summary" of GET /analytics; the two rates as <<numerator, denominator>>
Summary(progress) ==
    [total_xp |-> progress.totalXP,
     completion_rate |-> <<Len(progress.completedTasks),
                           Max(1, progress.currentWeek * 5)>>,
     struggle_rate |-> <<Len(progress.struggledTasks),
                         Max(1, Len(progress.completedTasks))>>,
     portfolio_count |-> Len(progress.portfolioItems)]

\* GET /analytics
get_analytics(user_id, loadFault) ==
    \E ld \in {LoadProgress(user_id, loadFault)} :
    \E recommendations \in
            {IF ld.value = <<>> THEN [raised |-> FALSE, value |-> <<>>]
             ELSE generate_personalized_recommendations(ld.value[1])} :
        /\ req' = [op |-> "get_analytics", user_id |-> user_id, body |-> <<>>]
        /\ calls' = <<ld.call>>
        /\ local' = [loaded |-> ld.value, saved |-> <<>>]
        /\ resp' = IF ld.call.raised
                   THEN ExceptException(OtherException, "Failed to retrieve analytics")
                   ELSE IF ld.value = <<>>
                   THEN ExceptException(HTTPException(404, "No progress data found"),
                                        "Failed to retrieve analytics")
                   ELSE IF recommendations.raised
                   THEN ExceptException(OtherException, "Failed to retrieve analytics")
                   ELSE Ok("", [learning_velocity |->
                                    calculate_learning_velocity(ld.value[1]),
                                certification_readiness |->
                                    predict_certification_readiness(ld.value[1]),
                                recommendations |-> recommendations.value,
                                summary |-> Summary(ld.value[1])])
        /\ UNCHANGED stores

\* GET /backup
create_backup(user_id, loadFault) ==
    \E ld \in {LoadProgress(user_id, loadFault)} :
        /\ req' = [op |-> "create_backup", user_id |-> user_id, body |-> <<>>]
        /\ calls' = <<ld.call>>
        /\ local' = [loaded |-> ld.value, saved |-> <<>>]
        /\ resp' = IF ld.call.raised
                   THEN ExceptException(OtherException, "Failed to create backup")
                   ELSE IF ld.value = <<>>
                   THEN ExceptException(HTTPException(404, "No progress data found"),
                                        "Failed to create backup")
                   ELSE Ok("", [backup_date |-> "now", user_id |-> user_id,
                                progress |-> ld.value[1], version |-> "1.0.0"])
        /\ UNCHANGED stores

\* GET /spaced-repetition
get_spaced_repetition(user_id, ioFault) ==
    \E q \in {GetSpacedRepetitionItems(user_id, ioFault)} :
        /\ req' = [op |-> "get_spaced_repetition", user_id |-> user_id, body |-> <<>>]
        /\ calls' = <<q.call>>
        /\ local' = NoLocal
        /\ resp' = IF q.call.raised
                   THEN ExceptException(OtherException,
                                        "Failed to retrieve spaced repetition items")
                   ELSE Ok("", [items |-> q.value, count |-> Len(q.value)])
        /\ UNCHANGED stores

----------------------------------------------------------------------------
(* utils/tasks.py: the background task *)

\* timedelta(days=30)
RetentionDays == 30

\* the comparison made inclusive: a row exactly at the cutoff is deleted too
Expired_Inclusive(next_review, cutoff_date) == next_review <= cutoff_date

\* WHERE next_review < $1
Expired(next_review, cutoff_date) == next_review < cutoff_date

\* cleanup_old_data, spawned by the lifespan of main.py after initialize.
\* ioFault: acquiring the connection or the DELETE fails; the statement is
\* atomic, so a failed DELETE removes nothing.  The try/except logs the
\* exception and the task ends without raising.
\* local.loaded records the stores as the task found them.
cleanup_old_data(ioFault) ==
    \E cutoff_date \in {Now - RetentionDays} :
    LET bodyRaised == pool /\ ioFault
    IN  /\ req' = [op |-> "cleanup_old_data", user_id |-> "", body |-> <<>>]
        /\ calls' = <<[op |-> "cleanup_old_data", io |-> bodyRaised,
                       fault |-> bodyRaised, raised |-> FALSE, ret |-> "None"]>>
        /\ local' = [loaded |-> <<stores>>, saved |-> <<>>]
        /\ resp' = NoResponse
        /\ spaced_repetition' =
                IF pool /\ ~bodyRaised
                THEN {r \in spaced_repetition : ~Expired(r.next_review, cutoff_date)}
                ELSE spaced_repetition
        /\ UNCHANGED <<pool, files, user_progress, log_files, daily_logs>>

----------------------------------------------------------------------------
(* The requests clients send *)

\* bodies of POST /progress: any ProgressData the framework validates
\* (completedTasks is a List[str], certificationProgress a Dict[str, int])
PostBodies ==
    { [ProgressData EXCEPT !.completedTasks = <<"t1", "t1">>],
      [ProgressData EXCEPT !.completedTasks = <<"t1">>, !.totalXP = 10,
                           !.certificationProgress[GCA] = 95],
      [ProgressData EXCEPT !.completedTasks = <<"t1">>,
                           !.certificationProgress[GCA] = 150],
      [ProgressData EXCEPT !.completedTasks = <<"t1">>,
                           !.portfolioItems =
                               <<[id |-> "t2", name |-> <<"Task: ", "t2">>,
                                  completedDate |-> "now", type |-> "project",
                                  xp |-> 1]>>],
      [ProgressData EXCEPT !.completedTasks = <<"t1">>,
                           !.certificationProgress =
                               [c \in {"AWS ML Specialty", "Azure AI Engineer"} |-> 0]] }

Next ==
    \/ \E u \in Users, f \in BOOLEAN : get_progress(u, f)
    \/ \E u \in Users, b \in PostBodies, f \in BOOLEAN : save_progress(u, b, f)
    \/ \E u \in Users, c \in TaskCompletions, lf \in BOOLEAN, sf \in BOOLEAN :
            complete_task(u, c, lf, sf)
    \/ \E u \in Users, d \in DailyLogs, f \in BOOLEAN : save_daily_log(u, d, f)
    \/ \E u \in Users, f \in BOOLEAN : get_analytics(u, f)
    \/ \E u \in Users, f \in BOOLEAN : create_backup(u, f)
    \/ \E u \in Users, f \in BOOLEAN : get_spaced_repetition(u, f)
    \/ \E f \in BOOLEAN : cleanup_old_data(f)

Spec == Init /\ [][Next]_vars

----------------------------------------------------------------------------
(* The analytics functions over the snapshots a client can store: POST      *)
(* /progress persists any ProgressData the framework validates, and GET     *)
(* /analytics hands the stored snapshot to the three functions.             *)

TaskSeq(n) == [i \in 1 .. n |-> ToString(i)]

ItemSeq(n) ==
    [i \in 1 .. n |-> [id |-> ToString(i), name |-> <<"Task: ", ToString(i)>>,
                       completedDate |-> "now", type |-> "project", xp |-> 1]]

\* certificationProgress is a Dict[str, int]: any keys, any ints
CertificationMaps ==
    {<<>>}
    \cup {[DefaultCertificationProgress EXCEPT ![GCA] = pct] :
            pct \in {-1, 0, 40, 41, 60, 61, 70, 71, 75, 80, 81, 97, 98, 99, 100, 150}}
    \cup {[DefaultCertificationProgress EXCEPT !["AWS ML Specialty"] = 85]}

AnalyticsSnapshots ==
    {[ProgressData EXCEPT !.completedTasks = TaskSeq(c),
                          !.struggledTasks = TaskSeq(s),
                          !.totalXP = xp, !.currentWeek = w,
                          !.portfolioItems = ItemSeq(n),
                          !.certificationProgress = cp] :
        c \in {0, 3, 10}, s \in {0, 1, 3}, xp \in {0, 1000}, w \in {1, 2},
        n \in {0, 1, 2}, cp \in CertificationMaps}

\* the outcome of a call of a function of ProgressAnalytics
Called(op, raised, value) ==
    [op |-> op, io |-> FALSE, fault |-> raised, raised |-> raised, ret |-> value]

InitAnalytics ==
    /\ pool = FALSE
    /\ files = [u \in Users |-> <<>>]
    /\ user_progress = <<>>
    /\ log_files = [k \in Users \X Dates |-> <<>>]
    /\ daily_logs = <<>>
    /\ spaced_repetition = {}
    /\ req = NoRequest
    /\ resp = NoResponse
    /\ calls = <<>>
    /\ local \in {[loaded |-> <<progress>>, saved |-> <<>>] :
                        progress \in AnalyticsSnapshots}

LearningVelocity ==
    /\ calls' = <<Called("calculate_learning_velocity", FALSE,
                         calculate_learning_velocity(local.loaded[1]))>>
    /\ UNCHANGED <<stores, req, resp, local>>

CertificationReadiness ==
    /\ calls' = <<Called("predict_certification_readiness", FALSE,
                         predict_certification_readiness(local.loaded[1]))>>
    /\ UNCHANGED <<stores, req, resp, local>>

Recommendations ==
    /\ \E r \in {generate_personalized_recommendations(local.loaded[1])} :
            calls' = <<Called("generate_personalized_recommendations",
                              r.raised, r.value)>>
    /\ UNCHANGED <<stores, req, resp, local>>

NextAnalytics ==
    \/ LearningVelocity
    \/ CertificationReadiness
    \/ Recommendations

SpecAnalytics == InitAnalytics /\ [][NextAnalytics]_vars

----------------------------------------------------------------------------
(* Two POST /task/complete requests in flight on the event loop.            *)
(*                                                                          *)
(* Each request is a coroutine; another coroutine runs only while this one  *)
(* is suspended in an await.  With a pool, load_progress and save_progress  *)
(* suspend in pool.acquire / conn.fetchrow / conn.execute, so the handler   *)
(* is two steps, the load (with the mutation, which is synchronous code)    *)
(* and the save (with the response).  Without a pool both methods are       *)
(* synchronous file I/O: awaiting them never suspends, and the handler      *)
(* runs from its load to its response before any other coroutine runs.      *)
(*                                                                          *)
(* Here req, resp and local are indexed by the coroutine, and calls is the  *)
(* log of the gateway calls of both, in the order they were made.           *)

Coroutines == {1, 2}

\* coroutine i has loaded and has not answered yet
InFlight(i) == req[i] # NoRequest /\ resp[i] = NoResponse

\* the event loop can run coroutine i: no other coroutine is in the middle
\* of a handler that never suspends
Runnable(i) == pool \/ \A j \in Coroutines \ {i} : ~InFlight(j)

InitRace ==
    /\ pool \in BOOLEAN
    /\ files = [u \in Users |-> <<>>]
    /\ user_progress = <<>>
    /\ log_files = [k \in Users \X Dates |-> <<>>]
    /\ daily_logs = <<>>
    /\ spaced_repetition = IF pool THEN ReviewRows ELSE {}
    /\ req = [i \in Coroutines |-> NoRequest]
    /\ resp = [i \in Coroutines |-> NoResponse]
    /\ calls = <<>>
    /\ local = [i \in Coroutines |-> NoLocal]

\* complete_task, lines 46-85: the load and the mutation
complete_task_load(i, user_id, completion, loadFault) ==
    /\ req[i] = NoRequest
    /\ Runnable(i)
    /\ \E ld \in {LoadProgress(user_id, loadFault)} :
       \E progress \in {IF ld.value = <<>> THEN ProgressData ELSE ld.value[1]} :
       \E ap \in {ApplyCompletion(progress, completion)} :
            /\ req' = [req EXCEPT ![i] = [op |-> "complete_task", user_id |-> user_id,
                                          body |-> <<completion>>]]
            /\ calls' = Append(calls, [task |-> i, call |-> ld.call])
            /\ local' = [local EXCEPT ![i] =
                            [loaded |-> IF ld.call.raised THEN <<>> ELSE <<progress>>,
                             saved |-> <<>>]]
            /\ resp' = IF ld.call.raised \/ ap.raised
                       THEN [resp EXCEPT ![i] =
                                ExceptException(OtherException, "Failed to complete task")]
                       ELSE resp
    /\ UNCHANGED stores

\* complete_task, lines 88-101: the save and the response
complete_task_save(i, saveFault) ==
    /\ InFlight(i)
    /\ Runnable(i)
    /\ \E completion \in {req[i].body[1]} :
       \E ap \in {ApplyCompletion(local[i].loaded[1], completion)} :
       \E sv \in {SaveProgress(req[i].user_id, ap.progress, saveFault)} :
            /\ calls' = Append(calls, [task |-> i, call |-> sv.call])
            /\ local' = [local EXCEPT ![i].saved = <<ap.progress>>]
            /\ files' = sv.files
            /\ user_progress' = sv.rows
            /\ resp' = [resp EXCEPT ![i] =
                            IF sv.call.raised
                            THEN ExceptException(OtherException, "Failed to complete task")
                            ELSE Ok("Task completed successfully",
                                    [success |-> TRUE,
                                     xp_earned |-> ResponseXpEarned(ap.progress, completion,
                                                                    ap.earned_xp),
                                     total_xp |-> ap.progress.totalXP])]
    /\ UNCHANGED <<pool, log_files, daily_logs, spaced_repetition, req>>

NextRace ==
    \/ \E i \in Coroutines, u \in Users, c \in TaskCompletions, f \in BOOLEAN :
            complete_task_load(i, u, c, f)
    \/ \E i \in Coroutines, f \in BOOLEAN : complete_task_save(i, f)

SpecRace == InitRace /\ [][NextRace]_vars

----------------------------------------------------------------------------
(* What the claims speak of, read off the last request *)

IsCompletion == req.op = "complete_task"
Event == req.body[1]
Loaded == local.loaded[1]       \* `progress` after line 49
Saved == local.saved[1]         \* `progress` as passed to save_progress, line 88

\* the mutation ran to its end and the snapshot was handed to save_progress
Mutated == IsCompletion /\ local.saved # <<>>

\* the completion found its task id in completedTasks at load time
RepeatCompletion ==
    /\ IsCompletion
    /\ local.loaded # <<>>
    /\ \E i \in 1 .. Len(Loaded.completedTasks) :
            Loaded.completedTasks[i] = Event.taskId

\* the completion found its task id absent from completedTasks at load time
FirstCompletion == Mutated /\ ~RepeatCompletion

\* load_progress returned the stored snapshot (no fault, snapshot present)
LoadedStored ==
    /\ calls # <<>>
    /\ calls[1].op = "load_progress"
    /\ calls[1].ret = "ProgressData"

\* floor(points * multiplier), multiplier 1.5 capstone, 1.2 project, else 1.0
FloorXp(completion) ==
    (completion.points *
        (IF completion.category = "capstone" THEN 15
         ELSE IF completion.category = "project" THEN 12 ELSE 10)) \div 10

\* the number of stored snapshot records of an identifier
RecordCount(user_id) ==
    IF pool
    THEN Cardinality({i \in 1 .. Len(user_progress) :
                        user_progress[i].user_id = user_id})
    ELSE Len(files[user_id])

NoDuplicates(seq) ==
    \A i, j \in 1 .. Len(seq) : seq[i] = seq[j] => i = j

----------------------------------------------------------------------------
(* C1 *)

\* C1 (as claimed): the xp_earned of a POST /task/complete response equals
\* the amount the request added to totalXP: floor(points * multiplier) for a
\* task not yet completed at load time, 0 for one already completed.
C1_XpEarnedIsIncrease ==
    (IsCompletion /\ resp.status = 200) =>
        /\ resp.body.xp_earned = Saved.totalXP - Loaded.totalXP
        /\ resp.body.xp_earned =
                IF FirstCompletion THEN FloorXp(Event) ELSE 0

----------------------------------------------------------------------------
(* C2 *)

\* C2: a POST /task/complete whose task id is already in the completedTasks
\* of the snapshot it loaded from the store hands save_progress that very
\* snapshot, and the store holds it afterwards: completedTasks, totalXP,
\* dailyXP, certificationProgress, portfolioItems, notes (every field) are
\* as the first application left them.
C2_RepeatIsNoOp ==
    (RepeatCompletion /\ LoadedStored) =>
        /\ local.saved = local.loaded
        /\ Stored(req.user_id) = local.loaded
        /\ resp.status = 200

\* a repeat completion of a task that earned XP and notes, saved successfully
C2_Witness ==
    /\ RepeatCompletion /\ LoadedStored
    /\ Len(calls) = 2 /\ calls[2].ret = "True"
    /\ Loaded.totalXP > 0
    /\ Loaded.notes # <<>>
    /\ Event.points > 0

----------------------------------------------------------------------------
(* C3 *)

\* C3 (as claimed): a completion of a task not completed before adds
\* floor(points * multiplier) to totalXP and never decreases it, for every
\* integer points (so a sequence of such completions adds the sum).
C3_TotalXpAddsFloorNeverDecreases ==
    FirstCompletion =>
        /\ Saved.totalXP = Loaded.totalXP + FloorXp(Event)
        /\ Saved.totalXP >= Loaded.totalXP

----------------------------------------------------------------------------
(* C4 *)

\* C4 (as claimed): GET /analytics and GET /backup answer 404 when no
\* snapshot is stored for the identifier and 500 only on a fault.
C4_AbsentIs404 ==
    (req.op \in {"get_analytics", "create_backup"}) =>
        /\ (~calls[1].fault /\ Stored(req.user_id) = <<>>) => resp.status = 404
        /\ resp.status = 500 => calls[1].fault

----------------------------------------------------------------------------
(* C5 *)

\* C5 (as claimed): when load_progress faults or save_progress returns false
\* during POST /task/complete, POST /progress or GET /progress, the response
\* is a 500, and no snapshot built from defaults replaces the stored one.
C5_PersistenceFailureIs500 ==
    (req.op \in {"complete_task", "save_progress", "get_progress"}) =>
        /\ (\E i \in 1 .. Len(calls) : calls[i].fault) => resp.status = 500
        /\ (calls[1].op = "load_progress" /\ calls[1].fault) =>
                ~(Len(calls) = 2 /\ calls[2].ret = "True")

----------------------------------------------------------------------------
(* C6 *)

\* C6 (as claimed): every stored certificationProgress value is in 0..100,
\* and a completion leaves certificationProgress["Google Cloud AI"] at most
\* 100 and at least its value before the completion.
C6_CertificationInRange ==
    /\ \A u \in Users : Stored(u) # <<>> =>
            \A c \in DOMAIN Stored(u)[1].certificationProgress :
                Stored(u)[1].certificationProgress[c] \in 0 .. 100
    /\ Mutated =>
            /\ Saved.certificationProgress[GCA] <= 100
            /\ Saved.certificationProgress[GCA] >= Loaded.certificationProgress[GCA]

----------------------------------------------------------------------------
(* C7 *)

\* C7 (as claimed): under either backend, after a save_progress that returned
\* success a load returns the saved snapshot, and after a save_progress the
\* storage layer did not fail there is exactly one record of the identifier.
C7_RoundTripOneRecord ==
    \A i \in 1 .. Len(calls) : calls[i].op = "save_progress" =>
        /\ calls[i].ret = "True" => Stored(req.user_id) = local.saved
        /\ ~calls[i].io => RecordCount(req.user_id) = 1

----------------------------------------------------------------------------
(* C8 *)

\* C8: no gateway method raises to its caller; when its body faults
\* save_progress and save_daily_log return False, load_progress returns None
\* and get_spaced_repetition_items returns [], and the handler gets no value
\* other than that.
C8_GatewayNeverRaises ==
    \A i \in 1 .. Len(calls) :
        /\ ~calls[i].raised
        /\ calls[i].fault =>
            /\ calls[i].op \in {"save_progress", "save_daily_log"}
                    => calls[i].ret = "False"
            /\ calls[i].op = "load_progress" => calls[i].ret = "None"
            /\ calls[i].op = "get_spaced_repetition_items" => calls[i].ret = "[]"
            /\ req.op \in {"get_progress", "get_analytics", "create_backup"}
                    => local.loaded = <<>>
            /\ req.op = "get_spaced_repetition"
                    => resp.status = 200 /\ resp.body.items = <<>>

\* a completion whose load and whose save both faulted
C8_Witness ==
    /\ IsCompletion
    /\ Len(calls) = 2
    /\ calls[1].op = "load_progress" /\ calls[1].fault
    /\ calls[2].op = "save_progress" /\ calls[2].fault

----------------------------------------------------------------------------
(* C9 *)

\* C9 (as claimed): no stored snapshot holds a task id twice in
\* completedTasks.
C9_NoDuplicateCompletedTasks ==
    \A u \in Users : Stored(u) # <<>> =>
        NoDuplicates(Stored(u)[1].completedTasks)

----------------------------------------------------------------------------
(* C10 *)

ItemIds(progress) ==
    [i \in 1 .. Len(progress.portfolioItems) |-> progress.portfolioItems[i].id]

\* every portfolio item belongs to a completed task, one item per task id
OneItemPerCompletedTask(progress) ==
    /\ NoDuplicates(ItemIds(progress))
    /\ Range(ItemIds(progress)) \subseteq Range(progress.completedTasks)

\* C10: a first completion appends exactly one portfolio item
\* {id: taskId, type: category, xp: earned XP} when the category is project
\* or capstone and none otherwise; a repeat completion appends none; hence a
\* snapshot with at most one item per completed task keeps that shape.
C10_PortfolioGating ==
    Mutated =>
        /\ IF FirstCompletion /\ Event.category \in {"project", "capstone"}
           THEN /\ Len(Saved.portfolioItems) = Len(Loaded.portfolioItems) + 1
                /\ SubSeq(Saved.portfolioItems, 1, Len(Loaded.portfolioItems))
                        = Loaded.portfolioItems
                /\ LET item == Saved.portfolioItems[Len(Saved.portfolioItems)]
                   IN  /\ item.id = Event.taskId
                       /\ item.type = Event.category
                       /\ item.xp = Saved.totalXP - Loaded.totalXP
           ELSE Saved.portfolioItems = Loaded.portfolioItems
        /\ OneItemPerCompletedTask(Loaded) => OneItemPerCompletedTask(Saved)

\* a first capstone completion on a snapshot that already holds an item
C10_Witness ==
    /\ FirstCompletion
    /\ Event.category = "capstone"
    /\ Len(Loaded.portfolioItems) = 1
    /\ OneItemPerCompletedTask(Loaded)
    /\ Len(Saved.portfolioItems) = 2
    /\ resp.status = 200

----------------------------------------------------------------------------
(* C11 *)

\* the snapshot the last analytics function was applied to, and its result
Snapshot == local.loaded[1]
Returned == calls[1].ret

RecommendationsCalled ==
    calls # <<>> /\ calls[1].op = "generate_personalized_recommendations"

\* the rules that fire on a snapshot, in the fixed order struggle-rate,
\* XP-velocity, max-certification, portfolio
FiredRules(p) ==
    LET s == Len(p.struggledTasks)
        c == IF Len(p.completedTasks) >= 1 THEN Len(p.completedTasks) ELSE 1
        certs == {p.certificationProgress[k] : k \in DOMAIN p.certificationProgress}
    IN  (IF 10 * s > 3 * c THEN <<"review">>
         ELSE IF 10 * s < c THEN <<"harder">> ELSE <<>>)
        \o (IF p.totalXP < p.currentWeek * 1000 THEN <<"study">> ELSE <<>>)
        \o (IF \E v \in certs : v > 80 THEN <<"exam">> ELSE <<>>)
        \o (IF Len(p.portfolioItems) < p.currentWeek THEN <<"portfolio">> ELSE <<>>)

RuleOf(message) ==
    CASE message = MsgReview -> "review"
      [] message = MsgGreat -> "harder"
      [] message = MsgStudyTime -> "study"
      [] message = MsgExam -> "exam"
      [] message = MsgPortfolio -> "portfolio"
      [] OTHER -> "none"

\* C11 (as claimed): recommendations(snapshot) returns, for every snapshot,
\* at most 3 messages: exactly the first 3 (or fewer) messages of the rules
\* that fire, in the order struggle-rate, XP-velocity, max-certification,
\* portfolio; when all four rules fire the portfolio message is dropped.
C11_RecommendationsFirstThree ==
    RecommendationsCalled =>
        /\ ~calls[1].raised
        /\ Len(Returned) <= 3
        /\ LET fired == FiredRules(Snapshot)
           IN  /\ Len(Returned) = (IF Len(fired) <= 3 THEN Len(fired) ELSE 3)
               /\ \A i \in 1 .. Len(Returned) : RuleOf(Returned[i]) = fired[i]
               /\ Len(fired) = 4 => \A i \in 1 .. Len(Returned) :
                                        Returned[i] # MsgPortfolio

----------------------------------------------------------------------------
(* C15 *)

ReadinessCalled ==
    calls # <<>> /\ calls[1].op = "predict_certification_readiness"

\* max(1, (100 - pct) / 2) rounded to an integer, a half rounding up
RoundedDays(pct) ==
    LET up == (100 - pct + 1) \div 2
    IN  IF up >= 1 THEN up ELSE 1

\* C15 (as claimed): certificationReadiness(snapshot) gives every
\* certification entry of percentage pct the confidenceLevel high if
\* pct > 70, medium if 40 < pct <= 70, low otherwise, the recommendedFocus
\* practice_exams if pct > 60, else foundation_building, and an
\* estimatedDaysToReady that is the integer max(1, (100 - pct) / 2) rounds
\* to; for pct = 75: high, practice_exams, 13.
C15_ReadinessEntries ==
    ReadinessCalled =>
        \A cert \in DOMAIN Returned :
            LET pct == Snapshot.certificationProgress[cert]
                entry == Returned[cert]
                days == entry.estimated_days_to_ready
            IN  /\ entry.confidence_level =
                        (IF pct > 70 THEN "high"
                         ELSE IF 40 < pct /\ pct <= 70 THEN "medium" ELSE "low")
                /\ entry.recommended_focus =
                        (IF pct > 60 THEN "practice_exams" ELSE "foundation_building")
                /\ days[1] = RoundedDays(pct) * days[2]
                /\ pct = 75 => /\ entry.confidence_level = "high"
                               /\ entry.recommended_focus = "practice_exams"
                               /\ days[1] = 13 * days[2]

----------------------------------------------------------------------------
(* C12 *)

SweepDone == req.op = "cleanup_old_data"

\* the stores as the sweep found them; the sixth is table spaced_repetition
StoresBefore == local.loaded[1]

\* C12: one Retention Sweep invocation never raises to its caller; under the
\* relational backend, unless the storage faults, it deletes exactly the
\* spaced-repetition rows whose next_review is earlier than now minus 30
\* days (a row 31 days past is deleted, rows 30 and 29 days past and rows
\* not yet due are retained) and changes nothing else; under file storage,
\* and when the storage faults, it changes nothing.
C12_RetentionSweep ==
    SweepDone =>
        /\ ~calls[1].raised
        /\ IF pool /\ ~calls[1].io
           THEN /\ spaced_repetition =
                        {r \in StoresBefore[6] : r.next_review >= Now - 30}
                /\ \A r \in StoresBefore[6] :
                        /\ r.next_review = Now - 31 => r \notin spaced_repetition
                        /\ r.next_review = Now - 29 => r \in spaced_repetition
                /\ <<pool, files, user_progress, log_files, daily_logs>> =
                        <<StoresBefore[1], StoresBefore[2], StoresBefore[3],
                          StoresBefore[4], StoresBefore[5]>>
           ELSE stores = StoresBefore

\* a sweep under the relational backend that found a row 31 days past and a
\* row 29 days past, deleted the first and kept the second
C12_Witness ==
    /\ SweepDone /\ pool /\ ~calls[1].io
    /\ \E r \in StoresBefore[6] :
            r.next_review = Now - 31 /\ r \notin spaced_repetition
    /\ \E r \in StoresBefore[6] :
            r.next_review = Now - 29 /\ r \in spaced_repetition

----------------------------------------------------------------------------
(* C13 *)

\* the category increment {ai:5, production:3, project:2, capstone:10, other:1}
CategoryIncrement(category) ==
    CASE category = "ai" -> 5
      [] category = "production" -> 3
      [] category = "project" -> 2
      [] category = "capstone" -> 10
      [] OTHER -> 1

\* certification map `after` is `before` but for its "Google Cloud AI" entry
SameButGCA(before, after) ==
    /\ DOMAIN after = DOMAIN before
    /\ \A k \in DOMAIN before \ {GCA} : after[k] = before[k]

\* C13: a task completion changes only the "Google Cloud AI" entry of
\* certificationProgress, to min(100, entry + category increment) on a first
\* completion and not at all on a repeat; the other entries keep their
\* values and the key set is the same before and after, in the snapshot the
\* completion saves and in the stored snapshot, for every snapshot the
\* completion loads.
C13_CertificationFrame ==
    /\ Mutated =>
            /\ SameButGCA(Loaded.certificationProgress, Saved.certificationProgress)
            /\ GCA \in DOMAIN Loaded.certificationProgress =>
                   Saved.certificationProgress[GCA] =
                        IF RepeatCompletion
                        THEN Loaded.certificationProgress[GCA]
                        ELSE LET raised == Loaded.certificationProgress[GCA]
                                           + CategoryIncrement(Event.category)
                             IN  IF raised <= 100 THEN raised ELSE 100
    /\ (IsCompletion /\ LoadedStored) =>
            SameButGCA(Loaded.certificationProgress,
                       Stored(req.user_id)[1].certificationProgress)

\* a first completion that raised the "Google Cloud AI" entry of a stored
\* snapshot and was stored, the other two entries as they were
C13_Witness ==
    /\ FirstCompletion /\ LoadedStored
    /\ Stored(req.user_id) = <<Saved>>
    /\ Saved.certificationProgress[GCA] > Loaded.certificationProgress[GCA]
    /\ Cardinality(DOMAIN Saved.certificationProgress) = 3

----------------------------------------------------------------------------
(* C14 *)

\* the positions in the call log of coroutine i's load and save
CallIndex(i, op) ==
    CHOOSE k \in 1 .. Len(calls) : calls[k].task = i /\ calls[k].call.op = op

\* both requests were handled to their response
BothAnswered == \A i \in Coroutines : resp[i] # NoResponse /\ local[i].saved # <<>>

\* the load and save steps of the two requests interleaved: each loaded
\* before the other saved
Interleaved ==
    /\ BothAnswered
    /\ \A i, j \in Coroutines :
            CallIndex(i, "load_progress") < CallIndex(j, "save_progress")

\* no call of the two requests met a storage fault
NoStorageFault == \A k \in 1 .. Len(calls) : ~calls[k].call.io

\* the coroutine whose save came last
LastSaver ==
    CHOOSE i \in Coroutines :
        \A j \in Coroutines : CallIndex(j, "save_progress") <= CallIndex(i, "save_progress")

\* the lost update: both answered success, and the stored snapshot is the
\* one the last saver saved; it has that request's task id and XP and lacks
\* the other's
LostUpdate(winner, loser) ==
    /\ resp[winner].status = 200 /\ resp[loser].status = 200
    /\ Stored("default_user") = <<local[winner].saved[1]>>
    /\ req[winner].body[1].taskId \in Range(Stored("default_user")[1].completedTasks)
    /\ req[loser].body[1].taskId \notin Range(Stored("default_user")[1].completedTasks)
    /\ Stored("default_user")[1].totalXP =
            local[winner].loaded[1].totalXP
            + (local[winner].saved[1].totalXP - local[winner].loaded[1].totalXP)

RaceFreeOfLostUpdate ==
    (BothAnswered /\ NoStorageFault)
        => \A i, j \in Coroutines : i # j => ~LostUpdate(i, j)

====
